---- MODULE Spec2Model ----
(***************************************************************************)
(* The libnetwork controller (controller.go): the network table, the       *)
(* sandbox table and the mutex that guards them, with every operation cut  *)
(* into the steps between which another goroutine can run: the call, the   *)
(* Lock(), the critical section, a collaborator call, the Unlock/return.   *)
(***************************************************************************)
EXTENDS Integers, Sequences, FiniteSets, TLC

\* ---------------------------------------------------------------- bounds
\* number of network ids the id generator hands out
MaxNets == 3
\* number of sandboxAdd / sandboxRm / sandboxGet calls that are started
MaxCalls == 6

\* the goroutines calling into the controller
Procs == {"g1", "g2"}
\* network types the callers pass; only those in drivers are registered
Types == {"bridge", "bogus"}
\* network names the callers pass
Names == {"net1", "net2"}
\* names with the empty one among them, which no operation refuses
AllNames == {"net1", ""}
\* sandbox keys (container ids) the callers pass
Keys == {"c1", "c2"}
\* the walkers the callers pass to WalkNetworks
Walkers == {"alwaysTrue", "alwaysFalse"}

\* ------------------------------------------------------------ the values
\* the mutex when no goroutine holds it
Free == "free"
\* a nil *network
NoNetwork == [id |-> 0, name |-> "", driver |-> ""]
\* a nil sandbox.Sandbox
NoSandbox == 0
\* the zero value of sandboxData
ZeroSandboxData == [sandbox |-> NoSandbox, refCnt |-> 0]
\* a nil error
NoErr == [kind |-> "nil", arg |-> ""]
ErrInvalidNetworkDriver == [kind |-> "ErrInvalidNetworkDriver", arg |-> ""]
NetworkNameError(n) == [kind |-> "NetworkNameError", arg |-> n]
NetworkTypeError(t) == [kind |-> "NetworkTypeError", arg |-> t]
\* the error a failing d.Config returns
ConfigError == [kind |-> "config", arg |-> ""]
\* the error a failing d.CreateNetwork returns
DriverError == [kind |-> "driver", arg |-> ""]
\* the error a failing sandbox.NewSandbox returns
SandboxError == [kind |-> "sandbox", arg |-> ""]
\* what an operation hands back to its caller
NoRet == [network |-> NoNetwork, sandbox |-> NoSandbox, list |-> <<>>, err |-> NoErr]
\* the arguments and locals of a goroutine that is in no operation
NoFrame == [networkType |-> "", name |-> "", id |-> 0, key |-> "", walker |-> "",
            network |-> NoNetwork, sData |-> ZeroSandboxData, list |-> <<>>,
            visited |-> <<>>, n |-> NoNetwork, had |-> FALSE, err |-> NoErr]

\* the driver table built by New(): the registered network types
drivers == {"bridge"}

VARIABLES
  mutex,        \* controller.Mutex: Free or the goroutine holding it
  networks,     \* controller.networks: id -> network
  sandboxes,    \* controller.sandboxes: key -> sandboxData (a value, not a pointer)
  nextId,       \* ids handed out so far by stringid.GenerateRandomID
  driverNets,   \* the ids for which driver.CreateNetwork returned nil
  nextSb,       \* sandboxes handed out so far by sandbox.NewSandbox
  sbKey,        \* sandbox -> the key it was created for
  destroyed,    \* sandbox -> how many times Destroy() was called on it
  pc,           \* where each goroutine is
  frame,        \* each goroutine's arguments and locals, under the source's names
  ret,          \* what the goroutine's last completed operation returned
  adds,         \* key -> completed successful sandboxAdd calls
  rms,          \* key -> completed sandboxRm calls
  underflow,    \* key -> a sandboxRm completed when removals already equalled adds
  calls,        \* sandbox operations started
  failedNew,    \* the keys for which a sandbox.NewSandbox call failed
  returnedNets  \* the networks successful NewNetwork calls returned

vars == <<mutex, networks, sandboxes, nextId, driverNets, nextSb, sbKey, destroyed,
          pc, frame, ret, adds, rms, underflow, calls, failedNew, returnedNets>>

netExt == <<nextId, driverNets, returnedNets>>
sbExt == <<nextSb, sbKey, destroyed, adds, rms, underflow, calls, failedNew>>

Init ==
  /\ mutex = Free
  /\ networks = << >>
  /\ sandboxes = << >>
  /\ nextId = 0
  /\ driverNets = {}
  /\ nextSb = 0
  /\ sbKey = << >>
  /\ destroyed = << >>
  /\ pc = [p \in Procs |-> "idle"]
  /\ frame = [p \in Procs |-> NoFrame]
  /\ ret = [p \in Procs |-> NoRet]
  /\ adds = [k \in Keys |-> 0]
  /\ rms = [k \in Keys |-> 0]
  /\ underflow = [k \in Keys |-> FALSE]
  /\ calls = 0
  /\ failedNew = {}
  /\ returnedNets = {}

\* ------------------------------------------------------ steps of any call
\* a goroutine that is in no operation calls one with the arguments args
Call(p, args, next) ==
  /\ pc[p] = "idle"
  /\ frame' = [frame EXCEPT ![p] = args]
  /\ ret' = [ret EXCEPT ![p] = NoRet]
  /\ pc' = [pc EXCEPT ![p] = next]

\* c.Lock(): blocks until the mutex is free
Lock(p, at, next) ==
  /\ pc[p] = at
  /\ mutex = Free
  /\ mutex' = p
  /\ pc' = [pc EXCEPT ![p] = next]
  /\ UNCHANGED <<networks, sandboxes, netExt, sbExt, frame, ret>>

\* the return of r to the caller: the frame is gone
Return(p, r) ==
  /\ ret' = [ret EXCEPT ![p] = r]
  /\ frame' = [frame EXCEPT ![p] = NoFrame]
  /\ pc' = [pc EXCEPT ![p] = "idle"]

\* ------------------------------------------------------------ NewNetwork
\* goroutines between their call of NewNetwork and the id they will draw
Drawing ==
  {q \in Procs : pc[q] \in {"nn_driver", "nn_lock1", "nn_check", "nn_create"}}

\* the entry of NewNetwork(networkType, name, options), name among names
NewNetworkCallWith(p, names) ==
  \E t \in Types, n \in names :
    /\ nextId + Cardinality(Drawing) < MaxNets
    /\ Call(p, [NoFrame EXCEPT !.networkType = t, !.name = n], "nn_driver")
    /\ UNCHANGED <<mutex, networks, sandboxes, netExt, sbExt>>

\* NewNetwork called with a name that is not empty
NewNetworkCall(p) == NewNetworkCallWith(p, Names)

\* NewNetwork called with any name, the empty one included
NewNetworkCallAny(p) == NewNetworkCallWith(p, AllNames)

\* NewNetworkDriver that takes any network type for a registered one
NewNetworkDriver_NoLookup(p) ==
  /\ pc[p] = "nn_driver"
  /\ pc' = [pc EXCEPT ![p] = "nn_lock1"]
  /\ UNCHANGED <<frame, ret, mutex, networks, sandboxes, netExt, sbExt>>

\* the driver lookup: d, ok := c.drivers[networkType]
NewNetworkDriver(p) ==
  /\ pc[p] = "nn_driver"
  /\ IF frame[p].networkType \notin drivers
       THEN Return(p, [NoRet EXCEPT !.err = ErrInvalidNetworkDriver])
       ELSE /\ pc' = [pc EXCEPT ![p] = "nn_lock1"]
            /\ UNCHANGED <<frame, ret>>
  /\ UNCHANGED <<mutex, networks, sandboxes, netExt, sbExt>>

\* the first c.Lock()
NewNetworkLock1(p) == Lock(p, "nn_lock1", "nn_check")

\* some network of the table has the name
NameTaken(n) == \E i \in DOMAIN networks : networks[i].name = n

\* NewNetworkCheck whose duplicate-name return leaves the mutex locked
NewNetworkCheck_NoUnlockDup(p) ==
  /\ pc[p] = "nn_check"
  /\ mutex = p
  /\ IF NameTaken(frame[p].name)
       THEN /\ Return(p, [NoRet EXCEPT !.err = NetworkNameError(frame[p].name)])
            /\ UNCHANGED mutex
       ELSE /\ mutex' = Free
            /\ pc' = [pc EXCEPT ![p] = "nn_create"]
            /\ UNCHANGED <<frame, ret>>
  /\ UNCHANGED <<networks, sandboxes, netExt, sbExt>>

\* NewNetworkCheck whose scan never finds the name
NewNetworkCheck_NoScan(p) ==
  /\ pc[p] = "nn_check"
  /\ mutex = p
  /\ mutex' = Free
  /\ pc' = [pc EXCEPT ![p] = "nn_create"]
  /\ UNCHANGED <<frame, ret, networks, sandboxes, netExt, sbExt>>

\* NewNetworkCheck that keeps the lock when the name is free
NewNetworkCheck_KeepLock(p) ==
  /\ pc[p] = "nn_check"
  /\ mutex = p
  /\ IF NameTaken(frame[p].name)
       THEN /\ mutex' = Free
            /\ Return(p, [NoRet EXCEPT !.err = NetworkNameError(frame[p].name)])
       ELSE /\ pc' = [pc EXCEPT ![p] = "nn_create"]
            /\ UNCHANGED <<mutex, frame, ret>>
  /\ UNCHANGED <<networks, sandboxes, netExt, sbExt>>

\* the scan for a network of the same name, and the Unlock on either path
NewNetworkCheck(p) ==
  /\ pc[p] = "nn_check"
  /\ mutex = p
  /\ mutex' = Free
  /\ IF NameTaken(frame[p].name)
       THEN Return(p, [NoRet EXCEPT !.err = NetworkNameError(frame[p].name)])
       ELSE /\ pc' = [pc EXCEPT ![p] = "nn_create"]
            /\ UNCHANGED <<frame, ret>>
  /\ UNCHANGED <<networks, sandboxes, netExt, sbExt>>

\* NewNetworkCreate that goes on to register the network when the driver failed
NewNetworkCreate_IgnoreErr(p) ==
  /\ pc[p] = "nn_create"
  /\ nextId' = nextId + 1
  /\ \E ok \in BOOLEAN :
       driverNets' = IF ok THEN driverNets \cup {nextId + 1} ELSE driverNets
  /\ frame' = [frame EXCEPT ![p].network =
                 [id |-> nextId + 1, name |-> frame[p].name,
                  driver |-> frame[p].networkType]]
  /\ pc' = [pc EXCEPT ![p] = "nn_lock2"]
  /\ UNCHANGED <<mutex, networks, sandboxes, returnedNets, sbExt, ret>>

\* the network object is constructed with a fresh id, then d.CreateNetwork
\* runs outside the lock and the driver decides whether it succeeds
NewNetworkCreate(p) ==
  /\ pc[p] = "nn_create"
  /\ nextId' = nextId + 1
  /\ \E ok \in BOOLEAN :
       IF ok
         THEN /\ driverNets' = driverNets \cup {nextId + 1}
              /\ frame' = [frame EXCEPT ![p].network =
                             [id |-> nextId + 1, name |-> frame[p].name,
                              driver |-> frame[p].networkType]]
              /\ pc' = [pc EXCEPT ![p] = "nn_lock2"]
              /\ ret' = ret
         ELSE /\ driverNets' = driverNets
              /\ Return(p, [NoRet EXCEPT !.err = DriverError])
  /\ UNCHANGED <<mutex, networks, sandboxes, returnedNets, sbExt>>

\* the second c.Lock()
NewNetworkLock2(p) == Lock(p, "nn_lock2", "nn_insert")

\* NewNetworkInsert that returns the network without storing it
NewNetworkInsert_NoStore(p) ==
  /\ pc[p] = "nn_insert"
  /\ mutex = p
  /\ mutex' = Free
  /\ Return(p, [NoRet EXCEPT !.network = frame[p].network])
  /\ returnedNets' = returnedNets \cup {frame[p].network}
  /\ UNCHANGED <<networks, sandboxes, nextId, driverNets, sbExt>>

\* c.networks[network.id] = network, the Unlock and the return
NewNetworkInsert(p) ==
  /\ pc[p] = "nn_insert"
  /\ mutex = p
  /\ networks' = (frame[p].network.id :> frame[p].network) @@ networks
  /\ mutex' = Free
  /\ Return(p, [NoRet EXCEPT !.network = frame[p].network])
  /\ returnedNets' = returnedNets \cup {frame[p].network}
  /\ UNCHANGED <<sandboxes, nextId, driverNets, sbExt>>

\* ------------------------------------------------- Networks, WalkNetworks
RECURSIVE Perms(_)
\* the orders in which a range over a map with key set S can yield the keys
Perms(S) ==
  IF S = {} THEN {<<>>}
  ELSE UNION {{<<x>> \o s : s \in Perms(S \ {x})} : x \in S}

\* NetworksList for make([]Network, len(c.networks)): the appended networks
\* follow as many nil entries
NetworksList_MakeLen ==
  {[i \in 1..Len(s) |-> NoNetwork] \o [i \in 1..Len(s) |-> networks[s[i]]] :
     s \in Perms(DOMAIN networks)}

\* the slices the loop of Networks() can build from the table
NetworksList ==
  {[i \in 1..Len(s) |-> networks[s[i]]] : s \in Perms(DOMAIN networks)}

NetworksCall(p) ==
  /\ Call(p, NoFrame, "ns_lock")
  /\ UNCHANGED <<mutex, networks, sandboxes, netExt, sbExt>>

NetworksLock(p) == Lock(p, "ns_lock", "ns_body")

\* the list is built under the lock and returned, the deferred Unlock runs
NetworksBody(p) ==
  /\ pc[p] = "ns_body"
  /\ mutex = p
  /\ mutex' = Free
  /\ \E l \in NetworksList : Return(p, [NoRet EXCEPT !.list = l])
  /\ UNCHANGED <<networks, sandboxes, netExt, sbExt>>

\* what the walker answers when invoked on n
WalkerStops(w, n) == w = "alwaysTrue"

WalkNetworksCall(p) ==
  \E w \in Walkers :
    /\ Call(p, [NoFrame EXCEPT !.walker = w], "wn_lock")
    /\ UNCHANGED <<mutex, networks, sandboxes, netExt, sbExt>>

\* the Lock() of the Networks() call in the range clause
WalkNetworksLock(p) == Lock(p, "wn_lock", "wn_list")

\* Networks() builds the slice the loop ranges over and unlocks
WalkNetworksList(p) ==
  /\ pc[p] = "wn_list"
  /\ mutex = p
  /\ mutex' = Free
  /\ \E l \in NetworksList : frame' = [frame EXCEPT ![p].list = l]
  /\ pc' = [pc EXCEPT ![p] = "wn_walk"]
  /\ UNCHANGED <<networks, sandboxes, netExt, sbExt, ret>>

\* WalkNetworksStep that drops the walker's answer and walks on
WalkNetworksStep_NoStop(p) ==
  /\ pc[p] = "wn_walk"
  /\ IF Len(frame[p].visited) = Len(frame[p].list)
       THEN /\ frame' = frame
            /\ pc' = [pc EXCEPT ![p] = "wn_ret"]
       ELSE LET n == frame[p].list[Len(frame[p].visited) + 1] IN
            /\ frame' = [frame EXCEPT ![p].visited = Append(@, n)]
            /\ pc' = pc
  /\ UNCHANGED <<mutex, networks, sandboxes, netExt, sbExt, ret>>

\* one turn of the loop: the walker is invoked on the next network of the
\* slice; the loop ends when it answers true or the slice is exhausted
WalkNetworksStep(p) ==
  /\ pc[p] = "wn_walk"
  /\ IF Len(frame[p].visited) = Len(frame[p].list)
       THEN /\ frame' = frame
            /\ pc' = [pc EXCEPT ![p] = "wn_ret"]
       ELSE LET n == frame[p].list[Len(frame[p].visited) + 1] IN
            /\ frame' = [frame EXCEPT ![p].visited = Append(@, n)]
            /\ pc' = IF WalkerStops(frame[p].walker, n)
                       THEN [pc EXCEPT ![p] = "wn_ret"]
                       ELSE pc
  /\ UNCHANGED <<mutex, networks, sandboxes, netExt, sbExt, ret>>

\* WalkNetworks returns
WalkNetworksReturn(p) ==
  /\ pc[p] = "wn_ret"
  /\ Return(p, NoRet)
  /\ UNCHANGED <<mutex, networks, sandboxes, netExt, sbExt>>

\* ------------------------------------------------------------ NetworkByID
\* the ids callers ask for: every id the generator can hand out
Ids == 1..MaxNets

NetworkByIDCall(p) ==
  \E i \in Ids :
    /\ Call(p, [NoFrame EXCEPT !.id = i], "nb_lock")
    /\ UNCHANGED <<mutex, networks, sandboxes, netExt, sbExt>>

NetworkByIDLock(p) == Lock(p, "nb_lock", "nb_body")

\* the map lookup, and the deferred Unlock
NetworkByIDLookup(p) ==
  /\ pc[p] = "nb_body"
  /\ mutex = p
  /\ mutex' = Free
  /\ Return(p, IF frame[p].id \in DOMAIN networks
                 THEN [NoRet EXCEPT !.network = networks[frame[p].id]]
                 ELSE NoRet)
  /\ UNCHANGED <<networks, sandboxes, netExt, sbExt>>

NextNet ==
  \E p \in Procs :
    \/ NewNetworkCall(p)
    \/ NewNetworkDriver(p)
    \/ NewNetworkLock1(p)
    \/ NewNetworkCheck(p)
    \/ NewNetworkCreate(p)
    \/ NewNetworkLock2(p)
    \/ NewNetworkInsert(p)
    \/ NetworksCall(p)
    \/ NetworksLock(p)
    \/ NetworksBody(p)
    \/ WalkNetworksCall(p)
    \/ WalkNetworksLock(p)
    \/ WalkNetworksList(p)
    \/ WalkNetworksStep(p)
    \/ WalkNetworksReturn(p)
    \/ NetworkByIDCall(p)
    \/ NetworkByIDLock(p)
    \/ NetworkByIDLookup(p)

\* the network half of the controller
SpecNet == Init /\ [][NextNet]_vars

\* ---------------------------------------------------------- NetworkByName
\* the entry of NetworkByName(name); had notes whether a network of that name
\* is in the table when the call is made
NetworkByNameCall(p) ==
  \E n \in AllNames :
    /\ Call(p, [NoFrame EXCEPT !.name = n, !.had = NameTaken(n)], "bn_test")
    /\ UNCHANGED <<mutex, networks, sandboxes, netExt, sbExt>>

\* NetworkByNameTest that walks for the empty name as for any other
NetworkByNameTest_NoGuard(p) ==
  /\ pc[p] = "bn_test"
  /\ pc' = [pc EXCEPT ![p] = "bn_lock"]
  /\ UNCHANGED <<mutex, networks, sandboxes, netExt, sbExt, frame, ret>>

\* if name != "": only then are the networks walked
NetworkByNameTest(p) ==
  /\ pc[p] = "bn_test"
  /\ pc' = [pc EXCEPT ![p] = IF frame[p].name # "" THEN "bn_lock" ELSE "bn_ret"]
  /\ UNCHANGED <<mutex, networks, sandboxes, netExt, sbExt, frame, ret>>

\* the Lock() of the Networks() call WalkNetworks makes
NetworkByNameLock(p) == Lock(p, "bn_lock", "bn_list")

\* Networks() builds the slice WalkNetworks ranges over and unlocks
NetworkByNameList(p) ==
  /\ pc[p] = "bn_list"
  /\ mutex = p
  /\ mutex' = Free
  /\ \E l \in NetworksList : frame' = [frame EXCEPT ![p].list = l]
  /\ pc' = [pc EXCEPT ![p] = "bn_walk"]
  /\ UNCHANGED <<networks, sandboxes, netExt, sbExt, ret>>

\* NetworkByNameStep whose walker stops at the first network, whatever its name
NetworkByNameStep_AnyName(p) ==
  /\ pc[p] = "bn_walk"
  /\ IF Len(frame[p].visited) = Len(frame[p].list)
       THEN /\ frame' = frame
            /\ pc' = [pc EXCEPT ![p] = "bn_ret"]
       ELSE LET current == frame[p].list[Len(frame[p].visited) + 1] IN
            /\ frame' = [frame EXCEPT ![p].visited = Append(@, current),
                                       ![p].n = current]
            /\ pc' = [pc EXCEPT ![p] = "bn_ret"]
  /\ UNCHANGED <<mutex, networks, sandboxes, netExt, sbExt, ret>>

\* one turn of WalkNetworks' loop with the walker s: on a network of the
\* passed name n is set and the walk stops
NetworkByNameStep(p) ==
  /\ pc[p] = "bn_walk"
  /\ IF Len(frame[p].visited) = Len(frame[p].list)
       THEN /\ frame' = frame
            /\ pc' = [pc EXCEPT ![p] = "bn_ret"]
       ELSE LET current == frame[p].list[Len(frame[p].visited) + 1] IN
            IF current.name = frame[p].name
              THEN /\ frame' = [frame EXCEPT ![p].visited = Append(@, current),
                                              ![p].n = current]
                   /\ pc' = [pc EXCEPT ![p] = "bn_ret"]
              ELSE /\ frame' = [frame EXCEPT ![p].visited = Append(@, current)]
                   /\ pc' = pc
  /\ UNCHANGED <<mutex, networks, sandboxes, netExt, sbExt, ret>>

\* return n
NetworkByNameReturn(p) ==
  /\ pc[p] = "bn_ret"
  /\ Return(p, [NoRet EXCEPT !.network = frame[p].n])
  /\ UNCHANGED <<mutex, networks, sandboxes, netExt, sbExt>>

NextName ==
  \E p \in Procs :
    \/ NewNetworkCallAny(p)
    \/ NewNetworkDriver(p)
    \/ NewNetworkLock1(p)
    \/ NewNetworkCheck(p)
    \/ NewNetworkCreate(p)
    \/ NewNetworkLock2(p)
    \/ NewNetworkInsert(p)
    \/ NetworkByNameCall(p)
    \/ NetworkByNameTest(p)
    \/ NetworkByNameLock(p)
    \/ NetworkByNameList(p)
    \/ NetworkByNameStep(p)
    \/ NetworkByNameReturn(p)

\* NewNetwork and NetworkByName, the empty name among the names passed
SpecName == Init /\ [][NextName]_vars

\* ------------------------------------------------- ConfigureNetworkDriver
ConfigureNetworkDriverCall(p) ==
  \E t \in Types :
    /\ Call(p, [NoFrame EXCEPT !.networkType = t], "cd_driver")
    /\ UNCHANGED <<mutex, networks, sandboxes, netExt, sbExt>>

\* d, ok := c.drivers[networkType], no lock taken
ConfigureNetworkDriverLookup(p) ==
  /\ pc[p] = "cd_driver"
  /\ IF frame[p].networkType \notin drivers
       THEN Return(p, [NoRet EXCEPT !.err = NetworkTypeError(frame[p].networkType)])
       ELSE /\ pc' = [pc EXCEPT ![p] = "cd_config"]
            /\ UNCHANGED <<frame, ret>>
  /\ UNCHANGED <<mutex, networks, sandboxes, netExt, sbExt>>

\* d.Config(options) runs and the driver decides what it answers
ConfigureNetworkDriverConfig(p) ==
  /\ pc[p] = "cd_config"
  /\ \E e \in {NoErr, ConfigError} : frame' = [frame EXCEPT ![p].err = e]
  /\ pc' = [pc EXCEPT ![p] = "cd_ret"]
  /\ UNCHANGED <<mutex, networks, sandboxes, netExt, sbExt, ret>>

\* return d.Config(options)
ConfigureNetworkDriverReturn(p) ==
  /\ pc[p] = "cd_ret"
  /\ Return(p, [NoRet EXCEPT !.err = frame[p].err])
  /\ UNCHANGED <<mutex, networks, sandboxes, netExt, sbExt>>

\* ------------------------------------------------------------- sandboxAdd
\* the table without the entry of key k: delete(c.sandboxes, k)
Deleted(k) == [j \in DOMAIN sandboxes \ {k} |-> sandboxes[j]]

\* a completed sandboxRm(k) is counted, and noted when it had no add to undo
CountRm(k) ==
  /\ rms' = [rms EXCEPT ![k] = @ + 1]
  /\ underflow' = [underflow EXCEPT ![k] = @ \/ rms[k] + 1 > adds[k]]

SandboxAddCall(p) ==
  \E k \in Keys :
    /\ calls < MaxCalls
    /\ calls' = calls + 1
    /\ Call(p, [NoFrame EXCEPT !.key = k], "sa_lock")
    /\ UNCHANGED <<mutex, networks, sandboxes, netExt, nextSb, sbKey, destroyed, adds,
                   rms, underflow, failedNew>>

SandboxAddLock(p) == Lock(p, "sa_lock", "sa_body")

\* SandboxAddLookup that goes on to create a sandbox whether or not it found one
SandboxAddLookup_AlwaysNew(p) ==
  /\ pc[p] = "sa_body"
  /\ mutex = p
  /\ pc' = [pc EXCEPT ![p] = "sa_new"]
  /\ UNCHANGED <<mutex, frame, ret, adds, networks, sandboxes, netExt, nextSb, sbKey,
                 destroyed, rms, underflow, calls, failedNew>>

\* sData, ok := c.sandboxes[key]; on a hit the copy's refCnt is incremented
\* and the copy's sandbox returned: the table entry itself is not assigned
SandboxAddLookup(p) ==
  /\ pc[p] = "sa_body"
  /\ mutex = p
  /\ LET k == frame[p].key IN
     IF k \notin DOMAIN sandboxes
       THEN /\ pc' = [pc EXCEPT ![p] = "sa_new"]
            /\ UNCHANGED <<mutex, frame, ret, adds>>
       ELSE LET sd == [sandboxes[k] EXCEPT !.refCnt = @ + 1] IN
            /\ Return(p, [NoRet EXCEPT !.sandbox = sd.sandbox])
            /\ mutex' = Free
            /\ adds' = [adds EXCEPT ![k] = @ + 1]
  /\ UNCHANGED <<networks, sandboxes, netExt, nextSb, sbKey, destroyed, rms, underflow,
                 calls, failedNew>>

\* SandboxAddNew that stores the entry before it looks at NewSandbox's error
SandboxAddNew_StoreOnErr(p) ==
  /\ pc[p] = "sa_new"
  /\ mutex = p
  /\ mutex' = Free
  /\ LET k == frame[p].key
         sb == nextSb + 1
     IN \E ok \in BOOLEAN :
          IF ok
            THEN /\ nextSb' = sb
                 /\ sbKey' = (sb :> k) @@ sbKey
                 /\ destroyed' = (sb :> 0) @@ destroyed
                 /\ sandboxes' = (k :> [sandbox |-> sb, refCnt |-> 1]) @@ sandboxes
                 /\ adds' = [adds EXCEPT ![k] = @ + 1]
                 /\ failedNew' = failedNew
                 /\ Return(p, [NoRet EXCEPT !.sandbox = sb])
            ELSE /\ Return(p, [NoRet EXCEPT !.err = SandboxError])
                 /\ failedNew' = failedNew \cup {k}
                 /\ sandboxes' = (k :> [sandbox |-> NoSandbox, refCnt |-> 1]) @@ sandboxes
                 /\ UNCHANGED <<nextSb, sbKey, destroyed, adds>>
  /\ UNCHANGED <<networks, netExt, rms, underflow, calls>>

\* SandboxAddNew that returns the new sandbox without storing an entry for it
SandboxAddNew_NoStore(p) ==
  /\ pc[p] = "sa_new"
  /\ mutex = p
  /\ mutex' = Free
  /\ LET k == frame[p].key
         sb == nextSb + 1
     IN \E ok \in BOOLEAN :
          IF ok
            THEN /\ nextSb' = sb
                 /\ sbKey' = (sb :> k) @@ sbKey
                 /\ destroyed' = (sb :> 0) @@ destroyed
                 /\ adds' = [adds EXCEPT ![k] = @ + 1]
                 /\ failedNew' = failedNew
                 /\ Return(p, [NoRet EXCEPT !.sandbox = sb])
                 /\ UNCHANGED sandboxes
            ELSE /\ Return(p, [NoRet EXCEPT !.err = SandboxError])
                 /\ failedNew' = failedNew \cup {k}
                 /\ UNCHANGED <<nextSb, sbKey, destroyed, sandboxes, adds>>
  /\ UNCHANGED <<networks, netExt, rms, underflow, calls>>

\* SandboxAddNew storing the new entry without its first reference
SandboxAddNew_NoRef(p) ==
  /\ pc[p] = "sa_new"
  /\ mutex = p
  /\ mutex' = Free
  /\ LET k == frame[p].key
         sb == nextSb + 1
     IN \E ok \in BOOLEAN :
          IF ok
            THEN /\ nextSb' = sb
                 /\ sbKey' = (sb :> k) @@ sbKey
                 /\ destroyed' = (sb :> 0) @@ destroyed
                 /\ sandboxes' = (k :> [sandbox |-> sb, refCnt |-> 0]) @@ sandboxes
                 /\ adds' = [adds EXCEPT ![k] = @ + 1]
                 /\ failedNew' = failedNew
                 /\ Return(p, [NoRet EXCEPT !.sandbox = sb])
            ELSE /\ Return(p, [NoRet EXCEPT !.err = SandboxError])
                 /\ failedNew' = failedNew \cup {k}
                 /\ UNCHANGED <<nextSb, sbKey, destroyed, sandboxes, adds>>
  /\ UNCHANGED <<networks, netExt, rms, underflow, calls>>

\* sandbox.NewSandbox(key) runs under the lock; on success the entry is
\* stored with refCnt 1, on failure nothing is stored
SandboxAddNew(p) ==
  /\ pc[p] = "sa_new"
  /\ mutex = p
  /\ mutex' = Free
  /\ LET k == frame[p].key
         sb == nextSb + 1
     IN \E ok \in BOOLEAN :
          IF ok
            THEN /\ nextSb' = sb
                 /\ sbKey' = (sb :> k) @@ sbKey
                 /\ destroyed' = (sb :> 0) @@ destroyed
                 /\ sandboxes' = (k :> [sandbox |-> sb, refCnt |-> 1]) @@ sandboxes
                 /\ adds' = [adds EXCEPT ![k] = @ + 1]
                 /\ failedNew' = failedNew
                 /\ Return(p, [NoRet EXCEPT !.sandbox = sb])
            ELSE /\ Return(p, [NoRet EXCEPT !.err = SandboxError])
                 /\ failedNew' = failedNew \cup {k}
                 /\ UNCHANGED <<nextSb, sbKey, destroyed, sandboxes, adds>>
  /\ UNCHANGED <<networks, netExt, rms, underflow, calls>>

\* -------------------------------------------------------------- sandboxRm
SandboxRmCall(p) ==
  \E k \in Keys :
    /\ calls < MaxCalls
    /\ calls' = calls + 1
    /\ Call(p, [NoFrame EXCEPT !.key = k], "sr_lock")
    /\ UNCHANGED <<mutex, networks, sandboxes, netExt, nextSb, sbKey, destroyed, adds,
                   rms, underflow, failedNew>>

SandboxRmLock(p) == Lock(p, "sr_lock", "sr_body")

\* SandboxRmDecrement that unlocks before the sandbox is destroyed
SandboxRmDecrement_EarlyUnlock(p) ==
  /\ pc[p] = "sr_body"
  /\ mutex = p
  /\ mutex' = Free
  /\ LET k == frame[p].key
         sd == IF k \in DOMAIN sandboxes THEN sandboxes[k] ELSE ZeroSandboxData
         dec == [sd EXCEPT !.refCnt = @ - 1]
     IN IF dec.refCnt = 0
          THEN /\ frame' = [frame EXCEPT ![p].sData = dec]
               /\ pc' = [pc EXCEPT ![p] = "sr_destroy"]
               /\ UNCHANGED <<ret, rms, underflow>>
          ELSE /\ Return(p, NoRet)
               /\ CountRm(k)
  /\ UNCHANGED <<networks, sandboxes, netExt, nextSb, sbKey, destroyed, adds, calls,
                 failedNew>>

\* SandboxRmDecrement with the decremented copy assigned back to the table
SandboxRmDecrement_WriteBack(p) ==
  /\ pc[p] = "sr_body"
  /\ mutex = p
  /\ LET k == frame[p].key
         sd == IF k \in DOMAIN sandboxes THEN sandboxes[k] ELSE ZeroSandboxData
         dec == [sd EXCEPT !.refCnt = @ - 1]
     IN IF dec.refCnt = 0
          THEN /\ frame' = [frame EXCEPT ![p].sData = dec]
               /\ pc' = [pc EXCEPT ![p] = "sr_destroy"]
               /\ UNCHANGED <<mutex, ret, rms, underflow, sandboxes>>
          ELSE /\ sandboxes' = (k :> dec) @@ sandboxes
               /\ Return(p, NoRet)
               /\ mutex' = Free
               /\ CountRm(k)
  /\ UNCHANGED <<networks, netExt, nextSb, sbKey, destroyed, adds, calls, failedNew>>

\* sData := c.sandboxes[key] (the zero value when the key is absent) and
\* sData.refCnt-- on the copy; unless the copy reached 0 the call returns
SandboxRmDecrement(p) ==
  /\ pc[p] = "sr_body"
  /\ mutex = p
  /\ LET k == frame[p].key
         sd == IF k \in DOMAIN sandboxes THEN sandboxes[k] ELSE ZeroSandboxData
         dec == [sd EXCEPT !.refCnt = @ - 1]
     IN IF dec.refCnt = 0
          THEN /\ frame' = [frame EXCEPT ![p].sData = dec]
               /\ pc' = [pc EXCEPT ![p] = "sr_destroy"]
               /\ UNCHANGED <<mutex, ret, rms, underflow>>
          ELSE /\ Return(p, NoRet)
               /\ mutex' = Free
               /\ CountRm(k)
  /\ UNCHANGED <<networks, sandboxes, netExt, nextSb, sbKey, destroyed, adds, calls, failedNew>>

\* SandboxRmDestroy that destroys the sandbox and leaves its entry in the table
SandboxRmDestroy_NoDelete(p) ==
  /\ pc[p] = "sr_destroy"
  /\ mutex = p
  /\ LET k == frame[p].key
         sb == frame[p].sData.sandbox
     IN /\ destroyed' = IF sb \in DOMAIN destroyed
                          THEN [destroyed EXCEPT ![sb] = @ + 1]
                          ELSE destroyed
        /\ CountRm(k)
  /\ mutex' = Free
  /\ Return(p, NoRet)
  /\ UNCHANGED <<networks, sandboxes, netExt, nextSb, sbKey, adds, calls, failedNew>>

\* sData.sandbox.Destroy() runs under the lock, then delete(c.sandboxes, key)
SandboxRmDestroy(p) ==
  /\ pc[p] = "sr_destroy"
  /\ mutex = p
  /\ LET k == frame[p].key
         sb == frame[p].sData.sandbox
     IN /\ destroyed' = IF sb \in DOMAIN destroyed
                          THEN [destroyed EXCEPT ![sb] = @ + 1]
                          ELSE destroyed
        /\ sandboxes' = Deleted(k)
        /\ CountRm(k)
  /\ mutex' = Free
  /\ Return(p, NoRet)
  /\ UNCHANGED <<networks, netExt, nextSb, sbKey, adds, calls, failedNew>>

\* ------------------------------------------------------------- sandboxGet
SandboxGetCall(p) ==
  \E k \in Keys :
    /\ calls < MaxCalls
    /\ calls' = calls + 1
    /\ Call(p, [NoFrame EXCEPT !.key = k], "sg_lock")
    /\ UNCHANGED <<mutex, networks, sandboxes, netExt, nextSb, sbKey, destroyed, adds,
                   rms, underflow, failedNew>>

SandboxGetLock(p) == Lock(p, "sg_lock", "sg_body")

\* the lookup, and the deferred Unlock
SandboxGetLookup(p) ==
  /\ pc[p] = "sg_body"
  /\ mutex = p
  /\ mutex' = Free
  /\ Return(p, IF frame[p].key \in DOMAIN sandboxes
                 THEN [NoRet EXCEPT !.sandbox = sandboxes[frame[p].key].sandbox]
                 ELSE NoRet)
  /\ UNCHANGED <<networks, sandboxes, netExt, sbExt>>

NextSb ==
  \E p \in Procs :
    \/ SandboxAddCall(p)
    \/ SandboxAddLock(p)
    \/ SandboxAddLookup(p)
    \/ SandboxAddNew(p)
    \/ SandboxRmCall(p)
    \/ SandboxRmLock(p)
    \/ SandboxRmDecrement(p)
    \/ SandboxRmDestroy(p)
    \/ SandboxGetCall(p)
    \/ SandboxGetLock(p)
    \/ SandboxGetLookup(p)

\* the sandbox half of the controller
SpecSb == Init /\ [][NextSb]_vars

\* NewNetwork, sandboxAdd and sandboxRm calls draw on one budget when the two
\* tables are exercised together
Budget == nextId + Cardinality(Drawing) + calls < MaxNets

\* the operations that call a driver or the sandbox provider
NextExt ==
  \E p \in Procs :
    \/ ConfigureNetworkDriverCall(p)
    \/ ConfigureNetworkDriverLookup(p)
    \/ ConfigureNetworkDriverConfig(p)
    \/ ConfigureNetworkDriverReturn(p)
    \/ (NewNetworkCall(p) /\ Budget)
    \/ NewNetworkDriver(p)
    \/ NewNetworkLock1(p)
    \/ NewNetworkCheck(p)
    \/ NewNetworkCreate(p)
    \/ NewNetworkLock2(p)
    \/ NewNetworkInsert(p)
    \/ (SandboxAddCall(p) /\ Budget)
    \/ SandboxAddLock(p)
    \/ SandboxAddLookup(p)
    \/ SandboxAddNew(p)
    \/ (SandboxRmCall(p) /\ Budget)
    \/ SandboxRmLock(p)
    \/ SandboxRmDecrement(p)
    \/ SandboxRmDestroy(p)

\* ConfigureNetworkDriver, NewNetwork, sandboxAdd and sandboxRm together
SpecExt == Init /\ [][NextExt]_vars

\* the steps of goroutine p inside an operation that takes the lock: every
\* statement after the call itself
Step(p) ==
  \/ NewNetworkDriver(p)
  \/ NewNetworkLock1(p)
  \/ NewNetworkCheck(p)
  \/ NewNetworkCreate(p)
  \/ NewNetworkLock2(p)
  \/ NewNetworkInsert(p)
  \/ NetworksLock(p)
  \/ NetworksBody(p)
  \/ NetworkByIDLock(p)
  \/ NetworkByIDLookup(p)
  \/ SandboxAddLock(p)
  \/ SandboxAddLookup(p)
  \/ SandboxAddNew(p)
  \/ SandboxRmLock(p)
  \/ SandboxRmDecrement(p)
  \/ SandboxRmDestroy(p)
  \/ SandboxGetLock(p)
  \/ SandboxGetLookup(p)

\* the calls of the operations that take the lock
FairBudget == nextId + Cardinality(Drawing) + calls < MaxNets - 1

Start(p) ==
  \/ (NewNetworkCall(p) /\ FairBudget)
  \/ NetworksCall(p)
  \/ NetworkByIDCall(p)
  \/ (SandboxAddCall(p) /\ FairBudget)
  \/ (SandboxRmCall(p) /\ FairBudget)
  \/ (SandboxGetCall(p) /\ FairBudget)

NextFair == \E p \in Procs : Start(p) \/ Step(p)

\* the lock-taking operations under a fair scheduler: a goroutine inside an
\* operation is not left waiting forever, at c.Lock() neither when the mutex
\* is free again and again (sync.Mutex hands a starving waiter the lock);
\* the driver and sandbox calls return
SpecFair == Init /\ [][NextFair]_vars /\ \A p \in Procs : SF_vars(Step(p))

Next == NextNet \/ NextName \/ NextExt \/ NextSb \/ NextFair

\* the whole controller
Spec == Init /\ [][Next]_vars

\* ============================================================ properties
\* goroutine p takes a step out of the place at
Leaves(p, at) == pc[p] = at /\ pc'[p] # at

\* C1: no two networks present in the network table share a name, under any
\* interleaving of concurrent NewNetwork calls.
C1_UniqueNames ==
  \A i, j \in DOMAIN networks : networks[i].name = networks[j].name => i = j

\* the sandboxes sandbox.NewSandbox created for key k
CreatedFor(k) == {s \in DOMAIN sbKey : sbKey[s] = k}

\* a sandboxRm(k) has completed or is under way
RmStarted(k) ==
  \/ rms[k] > 0
  \/ \E p \in Procs : pc[p] \in {"sr_lock", "sr_body", "sr_destroy"} /\ frame[p].key = k

\* C2: after N >= 1 successful sandboxAdd(k) calls and no sandboxRm(k), exactly
\* one sandbox has been created for k and the table entry of k stores refCnt N.
C2_RefCntCountsAdds ==
  \A k \in Keys :
    (adds[k] >= 1 /\ ~RmStarted(k)) =>
      /\ Cardinality(CreatedFor(k)) = 1
      /\ k \in DOMAIN sandboxes
      /\ sandboxes[k].refCnt = adds[k]

\* C3: as long as the completed removals of k never exceeded its completed
\* adds, and adds minus removals is above 0, the entry of k is present and
\* Destroy has not been called on its sandbox.
C3_DestroyOnLastRm ==
  \A k \in Keys :
    (~underflow[k] /\ adds[k] - rms[k] > 0) =>
      /\ k \in DOMAIN sandboxes
      /\ destroyed[sandboxes[k].sandbox] = 0

\* C4: every entry present in the sandbox table stores a refCnt above 0.
C4_RefCntPositive ==
  \A k \in DOMAIN sandboxes : sandboxes[k].refCnt > 0

\* entries are present after adds and removals, one of them a sandboxRm on an
\* absent key
C4_Witness ==
  /\ \E k \in DOMAIN sandboxes : adds[k] >= 2
  /\ \E k \in Keys : underflow[k]
  /\ \E p \in Procs : pc[p] = "sg_body"

\* C5: a sandboxRm(k) that finds no entry for k leaves the sandbox table as it
\* was and calls no Destroy, and a sandboxAdd(k) that finds no entry creates a
\* sandbox never handed out before and stores it with refCnt 1.
C5_RmAbsentHarmless ==
  [][\A p \in Procs :
       LET k == frame[p].key IN
       /\ (Leaves(p, "sr_body") /\ k \notin DOMAIN sandboxes) =>
            /\ sandboxes' = sandboxes
            /\ destroyed' = destroyed
            /\ pc'[p] = "idle"
       /\ (Leaves(p, "sa_body") /\ k \notin DOMAIN sandboxes) => pc'[p] = "sa_new"
       /\ (Leaves(p, "sa_new") /\ ret'[p].err = NoErr) =>
            /\ ret'[p].sandbox \notin DOMAIN destroyed
            /\ sandboxes' = (k :> [sandbox |-> ret'[p].sandbox, refCnt |-> 1]) @@ sandboxes
            /\ destroyed'[ret'[p].sandbox] = 0
    ]_vars

\* a sandboxRm(k) ran on the absent key k and a later sandboxAdd(k) stored an
\* entry for it
C5_Witness ==
  \E k \in DOMAIN sandboxes :
    /\ underflow[k]
    /\ CreatedFor(k) = {sandboxes[k].sandbox}
    /\ sandboxes[k].refCnt = 1

\* the network a successful NewNetwork returned under id i, nil if none did
Returned(i) ==
  IF \E n \in returnedNets : n.id = i
    THEN CHOOSE n \in returnedNets : n.id = i
    ELSE NoNetwork

C7_RegisteredAfterCreate ==
  /\ [](DOMAIN networks \subseteq driverNets)
  /\ [][\A p \in Procs :
          (Leaves(p, "nn_create") /\ (nextId + 1) \notin driverNets') =>
            /\ ret'[p] = [NoRet EXCEPT !.err = DriverError]
            /\ pc'[p] = "idle"
            /\ networks' = networks]_vars

\* a CreateNetwork failed, its id is not in the table, another network is
C7_Witness ==
  /\ \E i \in 1..nextId : i \notin driverNets /\ i \notin DOMAIN networks
  /\ \E p \in Procs : pc[p] = "idle" /\ ret[p].err = DriverError
  /\ DOMAIN networks # {}

\* C8: when a network of the passed name is in the table at NewNetwork's name
\* check, the call returns the duplicate-name error, the table is unchanged
\* and the call ends without a driver.CreateNetwork.
C8_DuplicateNameRejected ==
  [][\A p \in Procs :
       (Leaves(p, "nn_check") /\ NameTaken(frame[p].name)) =>
         /\ ret'[p] = [NoRet EXCEPT !.err = NetworkNameError(frame[p].name)]
         /\ pc'[p] = "idle"
         /\ networks' = networks
         /\ nextId' = nextId
         /\ driverNets' = driverNets]_vars

\* a NewNetwork call was rejected for its name
C8_Witness ==
  \E p \in Procs :
    /\ pc[p] = "idle"
    /\ ret[p].err.kind = "NetworkNameError"
    /\ NameTaken(ret[p].err.arg)

\* the slice l holds exactly the networks of the table tbl, each once
IsSnapshot(l, tbl) ==
  /\ Len(l) = Cardinality(DOMAIN tbl)
  /\ {l[i] : i \in 1..Len(l)} = {tbl[i] : i \in DOMAIN tbl}

\* C9: the list Networks() returns holds exactly the networks in the table at
\* the instant it is built, each once, and steps of other goroutines (their
\* NewNetwork insertions among them) leave a returned list as it is.
C9_NetworksSnapshot ==
  [][\A p \in Procs :
       /\ Leaves(p, "ns_body") => IsSnapshot(ret'[p].list, networks)
       /\ (pc[p] = "idle" /\ \E q \in Procs \ {p} : pc'[q] # pc[q]) =>
            ret'[p].list = ret[p].list]_vars

\* a returned list of two networks is older than a third insertion
C9_Witness ==
  \E p \in Procs :
    /\ pc[p] = "idle"
    /\ Len(ret[p].list) = 2
    /\ Cardinality(DOMAIN networks) = 3

\* C10: WalkNetworks invokes the walker on networks of a snapshot of the table,
\* in the snapshot's order and each at most once, and stops at the first
\* invocation that answers true: an always-true walker is invoked once when
\* the snapshot is not empty, an always-false one on every network of it.
C10_WalkNetworks ==
  /\ [](\A p \in Procs :
          pc[p] \in {"wn_walk", "wn_ret"} =>
            LET v == frame[p].visited
                l == frame[p].list
                w == frame[p].walker
            IN /\ Len(v) <= Len(l)
               /\ \A i \in 1..Len(v) : v[i] = l[i]
               /\ \A i, j \in 1..Len(v) : v[i] = v[j] => i = j
               /\ \A i \in 1..(Len(v) - 1) : ~WalkerStops(w, v[i])
               /\ pc[p] = "wn_ret" =>
                    /\ Len(v) = Len(l) \/ (Len(v) >= 1 /\ WalkerStops(w, v[Len(v)]))
                    /\ (w = "alwaysTrue" /\ Len(l) >= 1) => Len(v) = 1
                    /\ w = "alwaysFalse" => v = l)
  /\ [][\A p \in Procs :
          Leaves(p, "wn_list") => IsSnapshot(frame'[p].list, networks)]_vars

\* an always-true walker has stopped a walk over two networks after one, and
\* an always-false walker has been through two
C10_Witness ==
  \E p, q \in Procs :
    /\ pc[p] = "wn_ret" /\ frame[p].walker = "alwaysTrue"
    /\ Len(frame[p].list) = 2 /\ Len(frame[p].visited) = 1
    /\ pc[q] = "wn_ret" /\ frame[q].walker = "alwaysFalse"
    /\ Len(frame[q].visited) = 2

InDriverCall(p) == pc[p] \in {"cd_config", "nn_create"}

\* goroutine p is in a call of the sandbox provider: NewSandbox or Destroy
InSandboxCall(p) == pc[p] \in {"sa_new", "sr_destroy"}

\* C13: no goroutine holds the controller mutex while its driver call or its
\* sandbox call is in progress.
C13_NoLockInCalls ==
  \A p \in Procs : (InDriverCall(p) \/ InSandboxCall(p)) => mutex # p

\* C13, amended: no goroutine holds the mutex while its driver call is in
\* progress; NewSandbox and Destroy run with the caller holding the mutex.
C13_LockAroundSandboxOnly ==
  \A p \in Procs :
    /\ InDriverCall(p) => mutex # p
    /\ InSandboxCall(p) => mutex = p

\* one goroutine is in CreateNetwork while the other is in NewSandbox
C13_Witness ==
  \E p, q \in Procs :
    /\ pc[p] = "nn_create"
    /\ pc[q] = "sa_new"
    /\ mutex = q

\* C14: with an unregistered network type ConfigureNetworkDriver returns the
\* unknown-type error and NewNetwork the invalid-driver error, whatever the
\* name, with no driver call, no lock taken and both tables unchanged; with a
\* registered type ConfigureNetworkDriver calls Config and returns its answer.
C14_UnknownTypeFails ==
  [][\A p \in Procs :
       LET t == frame[p].networkType IN
       /\ (Leaves(p, "cd_driver") /\ t \notin drivers) =>
            /\ ret'[p] = [NoRet EXCEPT !.err = NetworkTypeError(t)]
            /\ pc'[p] = "idle"
            /\ UNCHANGED <<networks, sandboxes, nextId, driverNets, mutex>>
       /\ (Leaves(p, "nn_driver") /\ t \notin drivers) =>
            /\ ret'[p] = [NoRet EXCEPT !.err = ErrInvalidNetworkDriver]
            /\ pc'[p] = "idle"
            /\ UNCHANGED <<networks, sandboxes, nextId, driverNets, mutex>>
       /\ (Leaves(p, "cd_driver") /\ t \in drivers) => pc'[p] = "cd_config"
       /\ Leaves(p, "cd_ret") => ret'[p] = [NoRet EXCEPT !.err = frame[p].err]
    ]_vars

\* both operations have refused the unregistered type while networks exist
C14_Witness ==
  \E p, q \in Procs :
    /\ pc[p] = "idle" /\ ret[p].err = ErrInvalidNetworkDriver
    /\ pc[q] = "idle" /\ ret[q].err = NetworkTypeError("bogus")
    /\ DOMAIN networks # {}

\* C15: a sandboxAdd(k) that finds no entry and whose NewSandbox fails returns
\* that error and leaves the table without an entry for k, and every
\* sandboxAdd(k) that finds no entry, a later one too, goes on to NewSandbox.
C15_FailedCreateStoresNothing ==
  /\ [](\A p \in Procs : pc[p] = "sa_new" => frame[p].key \notin DOMAIN sandboxes)
  /\ [][\A p \in Procs :
          LET k == frame[p].key IN
          /\ (Leaves(p, "sa_new") /\ nextSb' = nextSb) =>
               /\ ret'[p] = [NoRet EXCEPT !.err = SandboxError]
               /\ sandboxes' = sandboxes
               /\ k \notin DOMAIN sandboxes'
          /\ (Leaves(p, "sa_body") /\ k \notin DOMAIN sandboxes) => pc'[p] = "sa_new"
       ]_vars

\* a sandboxAdd is in NewSandbox for a key whose earlier creation failed
C15_Witness ==
  \E p \in Procs :
    /\ pc[p] = "sa_new"
    /\ frame[p].key \in failedNew
    /\ CreatedFor(frame[p].key) = {}

\* the sandboxes created for key k on which Destroy has not been called
Live(k) == {s \in CreatedFor(k) : destroyed[s] = 0}

\* C16: at any time at most one sandbox created for a key is not yet
\* destroyed, and a sandboxAdd(k) that finds an entry returns the entry's
\* sandbox and creates none.
C16_OneSandboxPerKey ==
  /\ [](\A k \in Keys : Cardinality(Live(k)) <= 1)
  /\ [][\A p \in Procs :
          LET k == frame[p].key IN
          (Leaves(p, "sa_body") /\ k \in DOMAIN sandboxes) =>
            /\ ret'[p] = [NoRet EXCEPT !.sandbox = sandboxes[k].sandbox]
            /\ pc'[p] = "idle"
            /\ nextSb' = nextSb
            /\ sbKey' = sbKey]_vars

\* both goroutines were handed the one live sandbox of a key
C16_Witness ==
  \E k \in DOMAIN sandboxes :
    /\ adds[k] >= 2
    /\ \A p \in Procs : pc[p] = "idle" /\ ret[p].sandbox = sandboxes[k].sandbox
    /\ Live(k) = {sandboxes[k].sandbox}

\* C17: Destroy is called at most once on a sandbox, also when a key sees more
\* removals than adds, and the goroutine that decremented to 0 keeps the mutex
\* until it has called Destroy and deleted the entry.
C17_DestroyOnce ==
  /\ [](\A s \in DOMAIN destroyed : destroyed[s] <= 1)
  /\ [](\A p \in Procs : pc[p] = "sr_destroy" => mutex = p)
  /\ [][\A p \in Procs :
          LET k == frame[p].key
              sb == frame[p].sData.sandbox
          IN Leaves(p, "sr_destroy") =>
               /\ sb \in DOMAIN destroyed
               /\ destroyed'[sb] = destroyed[sb] + 1
               /\ k \notin DOMAIN sandboxes'
               /\ mutex' = Free]_vars

\* a key has seen more removals than adds and its sandbox was destroyed
C17_Witness ==
  \E k \in Keys :
    /\ underflow[k]
    /\ \E s \in CreatedFor(k) : destroyed[s] = 1

\* C18: whenever no goroutine holds the mutex, a key has an entry exactly when
\* a sandbox created for it is not destroyed, the entry holding that sandbox;
\* sandboxGet(k) returns the entry's sandbox, nil without an entry, and leaves
\* the table as it is.
C18_EntryIffLive ==
  /\ [](mutex = Free =>
          \A k \in Keys :
            /\ k \in DOMAIN sandboxes <=> Live(k) # {}
            /\ k \in DOMAIN sandboxes => Live(k) = {sandboxes[k].sandbox})
  /\ [][\A p \in Procs :
          LET k == frame[p].key IN
          Leaves(p, "sg_body") =>
            /\ sandboxes' = sandboxes
            /\ ret'[p].sandbox =
                 IF k \in DOMAIN sandboxes THEN sandboxes[k].sandbox ELSE NoSandbox
       ]_vars

\* with the mutex free, one key has a live sandbox and an entry, the other a
\* destroyed sandbox and none, and a goroutine holds a returned sandbox
C18_Witness ==
  /\ mutex = Free
  /\ \E k \in DOMAIN sandboxes : Live(k) # {}
  /\ \E k \in Keys \ DOMAIN sandboxes : CreatedFor(k) # {}
  /\ \E p \in Procs : pc[p] = "idle" /\ ret[p].sandbox # NoSandbox

\* C19: a sandboxAdd(k) that creates, the first for k or one after the entry
\* of k was removed, stores refCnt 1 with a sandbox never handed out before,
\* and no sandboxAdd returns a sandbox on which Destroy has been called.
C19_KeyCycles ==
  [][\A p \in Procs :
       LET k == frame[p].key IN
       /\ (Leaves(p, "sa_new") /\ nextSb' # nextSb) =>
            /\ ret'[p].sandbox \notin DOMAIN sbKey
            /\ sandboxes'[k] = [sandbox |-> ret'[p].sandbox, refCnt |-> 1]
       /\ ((Leaves(p, "sa_new") \/ Leaves(p, "sa_body")) /\ pc'[p] = "idle"
             /\ ret'[p].err = NoErr) =>
            /\ ret'[p].sandbox \in DOMAIN destroyed'
            /\ destroyed'[ret'[p].sandbox] = 0
    ]_vars

\* a key is on its third sandbox, the two before it destroyed
C19_Witness ==
  \E k \in DOMAIN sandboxes :
    /\ Cardinality(CreatedFor(k)) = 3
    /\ Cardinality(Live(k)) = 1
    /\ sandboxes[k].refCnt = 1

\* the positions at which a goroutine is between c.Lock() and c.Unlock()
InCritical(p) ==
  pc[p] \in {"nn_check", "nn_insert", "ns_body", "wn_list", "nb_body", "bn_list",
             "sa_body", "sa_new", "sr_body", "sr_destroy", "sg_body"}

\* C20: a goroutine holds the mutex exactly while it is inside a lock-protected
\* section, so it has released it on every return and at most one goroutine is
\* inside such a section; with a fair scheduler every started operation returns.
C20_LockReleasedAndProgress ==
  /\ [](\A p \in Procs : mutex = p <=> InCritical(p))
  /\ [](\A p, q \in Procs : (InCritical(p) /\ InCritical(q)) => p = q)
  /\ \A p \in Procs : (pc[p] # "idle") ~> (pc[p] = "idle")

\* one goroutine has returned the duplicate-name error of NewNetwork, the
\* mutex released, and the other is inside the locked section of Networks
C20_Witness ==
  \E p, q \in Procs :
    /\ pc[p] = "idle"
    /\ ret[p].err = NetworkNameError("net1")
    /\ pc[q] = "ns_body"
    /\ mutex = q

====
